---------------------------- MODULE Spec2Model ----------------------------
(***************************************************************************)
(* Model of src/src/extension.ts (history-in-sublime-merge): the upward    *)
(* search for the repository that owns a path (getRepository), the second  *)
(* search for a submodule root and the path relativization done by         *)
(* getFileDetails and openFile, and the three commands that hand the       *)
(* result to the external launcher.                                        *)
(*                                                                         *)
(* Paths and file contents are TLA+ strings, handled character by          *)
(* character the way node's posix path module and the JavaScript string    *)
(* methods handle them.                                                    *)
(***************************************************************************)
EXTENDS Integers, Sequences, FiniteSets, TLC

\* ------------------------------------------------------------------ bounds
\* Depth of the deepest directory of the modelled tree: /, /a, /a/a, ...
MaxDepth == 2
\* Number of times another process may delete a .git entry during a command.
MaxEnvOps == 1

\* ------------------------------------------------- JavaScript string methods
\* The value of an absent optional (undefined / null).
Undefined == "<undefined>"

\* !v for a string-or-undefined value.
Falsy(v) == v = Undefined \/ v = ""

CharAt(s, i) == SubSeq(s, i, i)

IsWhitespace(c) == c \in {" ", "\n", "\t", "\r"}

RECURSIVE TrimStart(_)
TrimStart(s) ==
  IF Len(s) > 0 /\ IsWhitespace(CharAt(s, 1))
  THEN TrimStart(SubSeq(s, 2, Len(s)))
  ELSE s

RECURSIVE TrimEnd(_)
TrimEnd(s) ==
  IF Len(s) > 0 /\ IsWhitespace(CharAt(s, Len(s)))
  THEN TrimEnd(SubSeq(s, 1, Len(s) - 1))
  ELSE s

\* String.prototype.trim
Trim(s) == TrimEnd(TrimStart(s))

\* String.prototype.startsWith
StartsWith(s, prefix) ==
  Len(s) >= Len(prefix) /\ SubSeq(s, 1, Len(prefix)) = prefix

\* String.prototype.substring(n), n a 0-based index
Substring(s, n) == SubSeq(s, n + 1, Len(s))

\* 1-based index of the first occurrence of pat in s at or after i, 0 if none.
RECURSIVE IndexOfFrom(_, _, _)
IndexOfFrom(s, pat, i) ==
  IF i + Len(pat) - 1 > Len(s) THEN 0
  ELSE IF SubSeq(s, i, i + Len(pat) - 1) = pat THEN i
  ELSE IndexOfFrom(s, pat, i + 1)

\* String.prototype.replace with a string pattern: only the first
\* occurrence is replaced, the string is returned unchanged without one.
ReplaceFirst(s, pat, rep) ==
  LET i == IndexOfFrom(s, pat, 1) IN
  IF i = 0 THEN s
  ELSE SubSeq(s, 1, i - 1) \o rep \o SubSeq(s, i + Len(pat), Len(s))

\* ------------------------------------------------------ node path (posix)
\* path.isAbsolute
IsAbsolute(p) == Len(p) > 0 /\ CharAt(p, 1) = "/"

\* path.parse(p).root
ParseRoot(p) == IF IsAbsolute(p) THEN "/" ELSE ""

\* Backward scan of path.dirname: the number of characters to keep, -1 when
\* no separator precedes the last segment.
RECURSIVE DirnameEnd(_, _, _)
DirnameEnd(p, i, matchedSlash) ==
  IF i < 2 THEN -1
  ELSE IF CharAt(p, i) = "/"
       THEN IF ~matchedSlash THEN i - 1 ELSE DirnameEnd(p, i - 1, TRUE)
       ELSE DirnameEnd(p, i - 1, FALSE)

\* path.dirname
Dirname(p) ==
  IF Len(p) = 0 THEN "."
  ELSE LET end == DirnameEnd(p, Len(p), TRUE) IN
       IF end = -1 THEN (IF IsAbsolute(p) THEN "/" ELSE ".")
       ELSE IF IsAbsolute(p) /\ end = 1 THEN "//"
       ELSE SubSeq(p, 1, end)

\* The segments of p between separators, empty segments dropped.
RECURSIVE SplitFrom(_, _, _)
SplitFrom(p, i, cur) ==
  IF i > Len(p) THEN (IF cur = "" THEN <<>> ELSE <<cur>>)
  ELSE IF CharAt(p, i) = "/"
       THEN (IF cur = "" THEN <<>> ELSE <<cur>>) \o SplitFrom(p, i + 1, "")
       ELSE SplitFrom(p, i + 1, cur \o CharAt(p, i))

Split(p) == SplitFrom(p, 1, "")

RECURSIVE JoinSegs(_)
JoinSegs(segs) ==
  IF segs = <<>> THEN ""
  ELSE IF Len(segs) = 1 THEN segs[1]
  ELSE segs[1] \o "/" \o JoinSegs(Tail(segs))

\* normalizeString: resolve "." and ".." segments from left to right.
RECURSIVE NormalizeSegs(_, _, _)
NormalizeSegs(segs, acc, allowAboveRoot) ==
  IF segs = <<>> THEN acc
  ELSE LET s == Head(segs) IN
       IF s = "." THEN NormalizeSegs(Tail(segs), acc, allowAboveRoot)
       ELSE IF s = ".."
            THEN IF acc # <<>> /\ acc[Len(acc)] # ".."
                 THEN NormalizeSegs(Tail(segs), SubSeq(acc, 1, Len(acc) - 1),
                                    allowAboveRoot)
                 ELSE IF allowAboveRoot
                      THEN NormalizeSegs(Tail(segs), Append(acc, ".."),
                                         allowAboveRoot)
                      ELSE NormalizeSegs(Tail(segs), acc, allowAboveRoot)
            ELSE NormalizeSegs(Tail(segs), Append(acc, s), allowAboveRoot)

\* path.normalize (trailing separators do not occur in the modelled paths)
Normalize(p) ==
  LET abs  == IsAbsolute(p)
      body == JoinSegs(NormalizeSegs(Split(p), <<>>, ~abs))
  IN IF abs THEN "/" \o body
     ELSE IF body = "" THEN "." ELSE body

\* path.join(a, b)
PathJoin(a, b) ==
  IF a = "" THEN Normalize(b)
  ELSE IF b = "" THEN Normalize(a)
  ELSE Normalize(a \o "/" \o b)

\* path.resolve(from, to) for an absolute from
PathResolve(from, to) ==
  LET r == IF IsAbsolute(to) THEN Normalize(to)
           ELSE Normalize(from \o "/" \o to)
  IN r

\* Length of the longest common prefix of two segment sequences.
RECURSIVE CommonLen(_, _)
CommonLen(a, b) ==
  IF a = <<>> \/ b = <<>> \/ Head(a) # Head(b) THEN 0
  ELSE 1 + CommonLen(Tail(a), Tail(b))

\* path.relative(from, to) for absolute arguments
PathRelative(from, to) ==
  LET f  == NormalizeSegs(Split(from), <<>>, FALSE)
      t  == NormalizeSegs(Split(to), <<>>, FALSE)
      n  == CommonLen(f, t)
      up == [i \in 1..(Len(f) - n) |-> ".."]
  IN JoinSegs(up \o SubSeq(t, n + 1, Len(t)))

\* -------------------------------------------------------------- filesystem
\* The directory chain /, /a, /a/a, ...: every directory of it may hold a
\* .git entry, and holds a plain file f and a plain sub-directory g.
RECURSIVE DirAt(_)
DirAt(k) == IF k = 0 THEN "/" ELSE PathJoin(DirAt(k - 1), "a")

Dirs == {DirAt(k) : k \in 0..MaxDepth}

Files == {PathJoin(d, "f") : d \in Dirs}

SubDirs == {PathJoin(d, "g") : d \in Dirs}

\* The path of the .git entry of every directory, and of the metadata
\* directory m inside it.
GitEntry == [d \in Dirs |-> PathJoin(d, ".git")]
GitModule == [d \in Dirs |-> PathJoin(d, ".git/m")]

\* Texts of a .git redirect file: the submodule form written by git, an
\* absolute target, a target inside the working tree, and a bare path.
Contents == {"gitdir: ../.git/m\n", "gitdir: /g\n", "gitdir: g", "../.git"}

NoMarker == [kind |-> "none", content |-> ""]

\* What a directory can hold under the name .git: nothing, a directory, or
\* a regular file with one of the texts.
Markers ==
  {NoMarker, [kind |-> "dir", content |-> ""]}
  \cup {[kind |-> "file", content |-> c] : c \in Contents}

\* The kind of the entry a path names in filesystem f: "none" when absent.
\* A .git directory holds the metadata directory m of a submodule.
Kind(f, p) ==
  LET n == Normalize(p) IN
  IF n \in Dirs \cup SubDirs THEN "dir"
  ELSE IF n \in Files THEN "file"
  ELSE IF \E d \in Dirs : n = GitEntry[d]
       THEN f[CHOOSE d \in Dirs : n = GitEntry[d]].kind
  ELSE IF \E d \in Dirs : n = GitModule[d] /\ f[d].kind = "dir"
       THEN "dir"
  ELSE "none"

\* fs.existsSync
ExistsSync(f, p) == Kind(f, p) # "none"

\* fs.readFileSync(p, "utf8") of a .git entry that is a regular file
ReadFileSync(f, p) ==
  LET n == Normalize(p) IN f[CHOOSE d \in Dirs : n = GitEntry[d]].content

\* ------------------------------------------------------------------- state
VARIABLES
  fs,             \* the .git entry of every directory of the chain
  envOps,         \* deletions done by other processes so far
  pc,             \* position of the running command
  cmd,            \* the command invoked and its inputs
  element,        \* getRepository: argument
  elementType,    \* getRepository: argument
  currentDir,     \* getRepository: local
  rootPath,       \* getRepository: local
  currentGitFile, \* getRepository: local
  gitDirPath,     \* getRepository: local
  grRet,          \* caller of getRepository
  probes,         \* directories getRepository looked into, in order
  repository,     \* value getRepository returned to its caller
  gfdRet,         \* caller of getFileDetails
  relativePath,   \* getFileDetails / openFile: local
  walkDir,        \* getFileDetails / openFile: local currentDir
  walkGitFile,    \* getFileDetails / openFile: local currentGitFile
  submoduleRoot,  \* getFileDetails / openFile: local
  details,        \* value getFileDetails returned
  warnings,       \* calls of vscode.window.showWarningMessage
  launches,       \* calls of openSublimeMerge: arguments and cwd
  thrown          \* an exception left the command

envVars == <<fs, envOps>>
grVars  == <<element, elementType, currentDir, rootPath, currentGitFile,
             gitDirPath, grRet, probes>>
fdVars  == <<gfdRet, relativePath, walkDir, walkGitFile, submoduleRoot,
             details>>
outVars == <<warnings, launches, thrown>>
vars    == <<fs, envOps, pc, cmd, element, elementType, currentDir, rootPath,
             currentGitFile, gitDirPath, grRet, probes, repository, gfdRet,
             relativePath, walkDir, walkGitFile, submoduleRoot, details,
             warnings, launches, thrown>>

\* folder: the single workspace folder, Undefined unless there is exactly one;
\* editor: the document of the active text editor, Undefined without one;
\* selStart, selEnd: the lines of its selection; file, action: the
\* arguments of openFile.
NoCmd == [name |-> "none", folder |-> Undefined, editor |-> Undefined,
          selStart |-> 0, selEnd |-> 0, file |-> Undefined,
          action |-> Undefined]

\* The FileDetails value that stands for undefined.
NoDetails == [path |-> Undefined, selectionStart |-> 0, selectionEnd |-> 0,
              repository |-> Undefined]

\* Selections of the active editor (0-based first and last line).
Selections == {<<1, 2>>}

Init ==
  /\ fs \in [Dirs -> Markers]
  /\ envOps = 0
  /\ pc = "idle"
  /\ cmd = NoCmd
  /\ element = Undefined /\ elementType = Undefined
  /\ currentDir = Undefined /\ rootPath = Undefined
  /\ currentGitFile = Undefined /\ gitDirPath = Undefined
  /\ grRet = Undefined /\ probes = <<>>
  /\ repository = Undefined
  /\ gfdRet = Undefined /\ relativePath = Undefined
  /\ walkDir = Undefined /\ walkGitFile = Undefined
  /\ submoduleRoot = Undefined /\ details = NoDetails
  /\ warnings = 0 /\ launches = <<>> /\ thrown = FALSE

\* ------------------------------------------------------------ getRepository
\* Entry of getRepository(el, type) on behalf of caller ret: lines 20-24.
CallGetRepository(el, type, ret) ==
  /\ element' = el
  /\ elementType' = type
  /\ currentDir' = (IF type = "file" THEN Dirname(el) ELSE el)
  /\ rootPath' = ParseRoot(el)
  /\ grRet' = ret
  /\ probes' = <<>>
  /\ pc' = "gr_loop"
  /\ UNCHANGED <<currentGitFile, gitDirPath, repository>>

\* return value: the caller resumes after its await.
ReturnFromGetRepository(value) ==
  /\ repository' = value
  /\ pc' = grRet \o "_after"

\* An exception nobody catches: the command's promise is rejected.
Throw ==
  /\ thrown' = TRUE
  /\ pc' = "done"

\* while (currentDir !== rootPath) is false: the loop is left.
GR_LoopExit ==
  /\ pc = "gr_loop"
  /\ currentDir = rootPath
  /\ pc' = "gr_warn"
  /\ UNCHANGED <<envVars, cmd, grVars, repository, fdVars, outVars>>

\* Loop body, lines 27-29: the .git entry of currentDir is looked for.
GR_Probe ==
  /\ pc = "gr_loop"
  /\ currentDir # rootPath
  /\ currentGitFile' = PathJoin(currentDir, ".git")
  /\ probes' = Append(probes, currentDir)
  /\ pc' = (IF ExistsSync(fs, currentGitFile') THEN "gr_stat" ELSE "gr_up")
  /\ UNCHANGED <<envVars, cmd, element, elementType, currentDir, rootPath,
                 gitDirPath, grRet, repository, fdVars, outVars>>

\* Lines 30-32 and 69-74: fs.statSync outside of any try block; an entry
\* that is neither a file nor a directory falls through to line 77.
GR_Stat ==
  /\ pc = "gr_stat"
  /\ LET kind == Kind(fs, currentGitFile) IN
     CASE kind = "none"  -> Throw /\ UNCHANGED <<repository, warnings, launches>>
       [] kind = "file"  -> pc' = "gr_read" /\ UNCHANGED <<repository, outVars>>
       [] kind = "dir"   -> ReturnFromGetRepository(Dirname(currentGitFile))
                              /\ UNCHANGED outVars
       [] OTHER          -> pc' = "gr_up" /\ UNCHANGED <<repository, outVars>>
  /\ UNCHANGED <<envVars, cmd, grVars, fdVars>>

\* Lines 44-53: the path a redirect text names, resolved against the
\* directory of the .git file.
ParseGitFile(gitFile, text) ==
  LET gitFileContent == Trim(text)
      named == IF StartsWith(gitFileContent, "gitdir: ")
               THEN Trim(Substring(gitFileContent, 8))
               ELSE gitFileContent
  IN IF ~IsAbsolute(named) THEN PathResolve(Dirname(gitFile), named)
     ELSE named

\* Lines 34-55: the redirect file is read and parsed; a failing read is
\* caught at line 66 and the walk goes on.
GR_Read ==
  /\ pc = "gr_read"
  /\ IF Kind(fs, currentGitFile) = "file"
     THEN /\ gitDirPath' = ParseGitFile(currentGitFile,
                                        ReadFileSync(fs, currentGitFile))
          /\ pc' = "gr_target"
     ELSE /\ pc' = "gr_up"
          /\ UNCHANGED gitDirPath
  /\ UNCHANGED <<envVars, cmd, element, elementType, currentDir, rootPath,
                 currentGitFile, grRet, probes, repository, fdVars, outVars>>

\* Lines 58-65: the redirect target must exist and be a directory.
GR_Target ==
  /\ pc = "gr_target"
  /\ IF ExistsSync(fs, gitDirPath) /\ Kind(fs, gitDirPath) = "dir"
     THEN ReturnFromGetRepository(Dirname(gitDirPath))
     ELSE pc' = "gr_up" /\ UNCHANGED repository
  /\ UNCHANGED <<envVars, cmd, grVars, fdVars, outVars>>

\* GR_Up with the assignment of line 83 lost: the walk stays where it is.
GR_Up_NoMove ==
  /\ pc = "gr_up"
  /\ LET parentDir == Dirname(currentDir) IN
     IF parentDir = currentDir
     THEN pc' = "gr_warn"
     ELSE pc' = "gr_loop"
  /\ UNCHANGED <<envVars, cmd, grVars, repository, fdVars, outVars>>

\* Lines 78-83: one level up, or out of the loop at a self-parented directory.
GR_Up ==
  /\ pc = "gr_up"
  /\ LET parentDir == Dirname(currentDir) IN
     IF parentDir = currentDir
     THEN pc' = "gr_warn" /\ UNCHANGED currentDir
     ELSE pc' = "gr_loop" /\ currentDir' = parentDir
  /\ UNCHANGED <<envVars, cmd, element, elementType, rootPath, currentGitFile,
                 gitDirPath, grRet, probes, repository, fdVars, outVars>>

\* GR_NotFound without the warning of line 87.
GR_NotFound_Silent ==
  /\ pc = "gr_warn"
  /\ ReturnFromGetRepository(Undefined)
  /\ UNCHANGED <<envVars, cmd, grVars, fdVars, outVars>>

\* Lines 87-89: nothing found.
GR_NotFound ==
  /\ pc = "gr_warn"
  /\ warnings' = warnings + 1
  /\ ReturnFromGetRepository(Undefined)
  /\ UNCHANGED <<envVars, cmd, grVars, fdVars, launches, thrown>>

\* --------------------------------------------------------- openSublimeMerge
\* child.execFile(binaryPath, args, {cwd: repository}); the binary path is
\* configuration and is not part of the state.
OpenSublimeMerge(args, cwd) ==
  launches' = Append(launches, [args |-> args, cwd |-> cwd])

\* ----------------------------------- the second walk (two copies in the code)
\* The file whose submodule root the walk of who looks for.
WalkFile(who) == IF who = "gfd" THEN cmd.editor ELSE cmd.file

\* Lines 116-126 and 199-209: nothing resolved ends the function, else the
\* path is relativized by text replacement and the second walk starts.
AfterGetRepository(who, notFound) ==
  /\ pc = who \o "_after"
  /\ IF Falsy(repository)
     THEN /\ notFound
          /\ UNCHANGED <<relativePath, walkDir, submoduleRoot>>
     ELSE /\ relativePath' = ReplaceFirst(WalkFile(who), repository \o "/", "")
          /\ walkDir' = Dirname(WalkFile(who))
          /\ submoduleRoot' = Undefined
          /\ pc' = who \o "_loop"
          /\ UNCHANGED details
  /\ UNCHANGED <<envVars, cmd, grVars, repository, gfdRet, walkGitFile,
                 outVars>>

Walk_LoopExit(who) ==
  /\ pc = who \o "_loop"
  /\ walkDir = ParseRoot(WalkFile(who))
  /\ pc' = who \o "_fin"
  /\ UNCHANGED <<envVars, cmd, grVars, repository, fdVars, outVars>>

Walk_Probe(who) ==
  /\ pc = who \o "_loop"
  /\ walkDir # ParseRoot(WalkFile(who))
  /\ walkGitFile' = PathJoin(walkDir, ".git")
  /\ pc' = (IF ExistsSync(fs, walkGitFile') THEN who \o "_stat"
            ELSE who \o "_up")
  /\ UNCHANGED <<envVars, cmd, grVars, repository, gfdRet, relativePath,
                 walkDir, submoduleRoot, details, outVars>>

Walk_Stat(who) ==
  /\ pc = who \o "_stat"
  /\ LET kind == Kind(fs, walkGitFile) IN
     CASE kind = "none" -> Throw /\ UNCHANGED <<submoduleRoot, warnings, launches>>
       [] kind = "file" -> /\ submoduleRoot' = walkDir
                           /\ pc' = who \o "_fin"
                           /\ UNCHANGED outVars
       [] OTHER         -> pc' = who \o "_up" /\ UNCHANGED <<submoduleRoot, outVars>>
  /\ UNCHANGED <<envVars, cmd, grVars, repository, gfdRet, relativePath,
                 walkDir, walkGitFile, details>>

Walk_Up(who) ==
  /\ pc = who \o "_up"
  /\ LET parentDir == Dirname(walkDir) IN
     IF parentDir = walkDir
     THEN pc' = who \o "_fin" /\ UNCHANGED walkDir
     ELSE pc' = who \o "_loop" /\ walkDir' = parentDir
  /\ UNCHANGED <<envVars, cmd, grVars, repository, gfdRet, relativePath,
                 walkGitFile, submoduleRoot, details, outVars>>

\* ----------------------------------------------------------- getFileDetails
CallGetFileDetails(editor, ret) ==
  /\ gfdRet' = ret
  /\ details' = NoDetails
  /\ CallGetRepository(editor, "file", "gfd")

\* Lines 116-126; "return;" at line 117 hands undefined to the caller.
GFD_AfterGetRepository ==
  AfterGetRepository("gfd", /\ details' = NoDetails
                            /\ pc' = gfdRet \o "_after")

GFD_LoopExit == Walk_LoopExit("gfd")
GFD_Probe    == Walk_Probe("gfd")
GFD_Stat     == Walk_Stat("gfd")
GFD_Up       == Walk_Up("gfd")

\* Lines 141-159: the FileDetails returned.
GFD_Return ==
  /\ pc = "gfd_fin"
  /\ IF ~Falsy(submoduleRoot)
     THEN /\ relativePath' = PathRelative(submoduleRoot, cmd.editor)
          /\ details' = [path           |-> relativePath',
                         selectionStart |-> cmd.selStart + 1,
                         selectionEnd   |-> cmd.selEnd + 1,
                         repository     |-> submoduleRoot]
     ELSE /\ details' = [path           |-> relativePath,
                         selectionStart |-> cmd.selStart + 1,
                         selectionEnd   |-> cmd.selEnd + 1,
                         repository     |-> repository]
          /\ UNCHANGED relativePath
  /\ pc' = gfdRet \o "_after"
  /\ UNCHANGED <<envVars, cmd, grVars, repository, gfdRet, walkDir,
                 walkGitFile, submoduleRoot, outVars>>

\* ----------------------------------------------------------- openRepository
\* Lines 165-169: exactly one workspace folder.
OpenRepository_Folder ==
  /\ pc = "idle"
  /\ \E d \in Dirs :
       /\ cmd' = [NoCmd EXCEPT !.name = "openRepository", !.folder = d]
       /\ CallGetRepository(d, "directory", "or")
  /\ UNCHANGED <<envVars, fdVars, outVars>>

\* Lines 170-172: no single workspace folder, an active editor.
OpenRepository_Editor ==
  /\ pc = "idle"
  /\ \E e \in Files :
       /\ cmd' = [NoCmd EXCEPT !.name = "openRepository", !.editor = e]
       /\ CallGetFileDetails(e, "or")
  /\ UNCHANGED <<envVars, relativePath, walkDir, walkGitFile, submoduleRoot,
                 outVars>>

\* Lines 173-181: neither; the warning, then the return at line 180.
OpenRepository_Nothing ==
  /\ pc = "idle"
  /\ cmd' = [NoCmd EXCEPT !.name = "openRepository"]
  /\ warnings' = warnings + 1
  /\ pc' = "done"
  /\ UNCHANGED <<envVars, grVars, repository, fdVars, launches, thrown>>

\* OpenRepository_Finish without the guard of lines 179-181.
OpenRepository_Finish_NoGuard ==
  /\ pc = "or_after"
  /\ LET repo == IF cmd.folder # Undefined THEN repository
                 ELSE details.repository
     IN OpenSublimeMerge(<<".">>, repo)
  /\ pc' = "done"
  /\ UNCHANGED <<envVars, cmd, grVars, repository, fdVars, warnings, thrown>>

\* Lines 179-183, with repository taken from getRepository or from the
\* FileDetails (lines 171-172).
OpenRepository_Finish ==
  /\ pc = "or_after"
  /\ LET repo == IF cmd.folder # Undefined THEN repository
                 ELSE details.repository
     IN IF Falsy(repo) THEN UNCHANGED launches
        ELSE OpenSublimeMerge(<<".">>, repo)
  /\ pc' = "done"
  /\ UNCHANGED <<envVars, cmd, grVars, repository, fdVars, warnings, thrown>>

\* ----------------------------------------------------------------- openFile
Actions == {"search", "blame"}

\* Lines 190-197 with a file path.
OpenFile ==
  /\ pc = "idle"
  /\ \E f \in Files, a \in Actions :
       /\ cmd' = [NoCmd EXCEPT !.name = "openFile", !.file = f, !.action = a]
       /\ CallGetRepository(f, "file", "of")
  /\ UNCHANGED <<envVars, fdVars, outVars>>

\* Lines 192-195: a Uri without a path.
OpenFile_NoPath ==
  /\ pc = "idle"
  /\ \E a \in Actions :
       cmd' = [NoCmd EXCEPT !.name = "openFile", !.file = "", !.action = a]
  /\ warnings' = warnings + 1
  /\ pc' = "done"
  /\ UNCHANGED <<envVars, grVars, repository, fdVars, launches, thrown>>

\* Lines 199-209.
OF_AfterGetRepository ==
  AfterGetRepository("of", /\ pc' = "done"
                           /\ UNCHANGED details)

OF_LoopExit == Walk_LoopExit("of")
OF_Probe    == Walk_Probe("of")
OF_Stat     == Walk_Stat("of")
OF_Up       == Walk_Up("of")

\* Lines 224-243.
OF_Launch ==
  /\ pc = "of_fin"
  /\ LET workingDir == IF ~Falsy(submoduleRoot) THEN submoduleRoot
                       ELSE repository
         relPath    == IF ~Falsy(submoduleRoot)
                       THEN PathRelative(submoduleRoot, cmd.file)
                       ELSE relativePath
         searchPattern == IF cmd.action = "search"
                          THEN "file:\"" \o relPath \o "\""
                          ELSE relPath
     IN /\ relativePath' = relPath
        /\ OpenSublimeMerge(<<cmd.action, searchPattern>>, workingDir)
  /\ pc' = "done"
  /\ UNCHANGED <<envVars, cmd, grVars, repository, gfdRet, walkDir,
                 walkGitFile, submoduleRoot, details, warnings, thrown>>

\* ---------------------------------------------------------- viewLineHistory
\* Lines 247-248: an active editor.
ViewLineHistory ==
  /\ pc = "idle"
  /\ \E e \in Files, sel \in Selections :
       /\ cmd' = [NoCmd EXCEPT !.name = "viewLineHistory", !.editor = e,
                               !.selStart = sel[1], !.selEnd = sel[2]]
       /\ CallGetFileDetails(e, "vlh")
  /\ UNCHANGED <<envVars, relativePath, walkDir, walkGitFile, submoduleRoot,
                 outVars>>

\* Line 247 false: nothing happens.
ViewLineHistory_NoEditor ==
  /\ pc = "idle"
  /\ cmd' = [NoCmd EXCEPT !.name = "viewLineHistory"]
  /\ pc' = "done"
  /\ UNCHANGED <<envVars, grVars, repository, fdVars, outVars>>

\* Lines 250-260.
ViewLineHistory_Finish ==
  /\ pc = "vlh_after"
  /\ IF details = NoDetails THEN UNCHANGED launches
     ELSE OpenSublimeMerge(
            <<"search",
              "file:\"" \o details.path \o "\" line:"
                \o ToString(details.selectionStart) \o "-"
                \o ToString(details.selectionEnd)>>,
            details.repository)
  /\ pc' = "done"
  /\ UNCHANGED <<envVars, cmd, grVars, repository, fdVars, warnings, thrown>>

\* ------------------------------------------------------------- environment
\* Another process deletes the .git entry of a directory while a command
\* runs (git submodule deinit, rm -rf, a checkout).
EnvRemove ==
  /\ pc \notin {"idle", "done"}
  /\ envOps < MaxEnvOps
  /\ \E d \in Dirs :
       /\ fs[d].kind # "none"
       /\ fs' = [fs EXCEPT ![d] = NoMarker]
  /\ envOps' = envOps + 1
  /\ UNCHANGED <<pc, cmd, grVars, repository, fdVars, outVars>>

\* ------------------------------------------------------------ specification
Next ==
  \/ OpenRepository_Folder \/ OpenRepository_Editor \/ OpenRepository_Nothing
  \/ OpenRepository_Finish
  \/ OpenFile \/ OpenFile_NoPath \/ OF_AfterGetRepository
  \/ OF_LoopExit \/ OF_Probe \/ OF_Stat \/ OF_Up \/ OF_Launch
  \/ ViewLineHistory \/ ViewLineHistory_NoEditor \/ ViewLineHistory_Finish
  \/ GFD_AfterGetRepository
  \/ GFD_LoopExit \/ GFD_Probe \/ GFD_Stat \/ GFD_Up \/ GFD_Return
  \/ GR_LoopExit \/ GR_Probe \/ GR_Stat \/ GR_Read \/ GR_Target \/ GR_Up
  \/ GR_NotFound
  \/ EnvRemove

Spec == Init /\ [][Next]_vars

\* The positions of a command.
Positions ==
  {"idle", "done",
   "gr_loop", "gr_stat", "gr_read", "gr_target", "gr_up", "gr_warn",
   "gfd_after", "gfd_loop", "gfd_stat", "gfd_up", "gfd_fin",
   "of_after", "of_loop", "of_stat", "of_up", "of_fin",
   "or_after", "vlh_after"}

\* A command that was invoked and has not ended.
Running == pc \notin {"idle", "done"}

\* The JavaScript engine executes the next step of the running command:
\* the code is synchronous and no step of it waits for anything.
Executes == Running /\ pc' \in Positions

FairSpec == Spec /\ WF_pc(Executes)

TypeOK ==
  /\ pc \in Positions
  /\ envOps \in 0..MaxEnvOps
  /\ warnings \in 0..2
  /\ Len(launches) \in 0..2

\* ------------------------------------------------- vocabulary of the claims
\* d is path p itself or one of the directories above it.
IsUnderOrEqual(p, d) == p = d \/ d = "/" \/ StartsWith(p, d \o "/")

\* The directory the walk of getRepository starts in.
StartDir == IF elementType = "file" THEN Dirname(element) ELSE element

\* The directories from dir up to the filesystem root, both included.
UpFrom(dir) == {d \in Dirs : IsUnderOrEqual(dir, d)}

\* The deepest directory of a non-empty set of directories of one chain.
Nearest(S) == CHOOSE d \in S : \A e \in S : Len(e) <= Len(d)

\* The directory a redirect file in d points to.
Target(d) == ParseGitFile(GitEntry[d], fs[d].content)

TargetIsDir(d) == fs[d].kind = "file" /\ Kind(fs, Target(d)) = "dir"

\* A marker that yields a repository, and the root it yields.
Usable(d) == fs[d].kind = "dir" \/ TargetIsDir(d)
RootOf(d) == IF fs[d].kind = "dir" THEN d ELSE Dirname(Target(d))

\* getRepository has just handed its result to its caller.
GRReturned == grRet # Undefined /\ pc = grRet \o "_after"

\* The filesystem is as it was when the command was invoked.
Unchanged == envOps = 0

\* ------------------------------------------------------------------ claims
\* C1: a file directly inside a submodule working tree s, nested in a
\* superproject r, whose s/.git is a redirect file with an existing
\* directory as target, resolves to s.
C1_SubmoduleResolvesToItself ==
  (GRReturned /\ Unchanged /\ elementType = "file") =>
    \A s \in Dirs :
      (/\ s = StartDir
       /\ TargetIsDir(s)
       /\ \E r \in UpFrom(s) \ {s} : fs[r].kind = "dir")
      => repository = s

\* C2: a directory d holding a .git directory, the filesystem root
\* included, is what getRepository returns for a start at d or below d with
\* no .git entry in between.
C2_PlainRepositoryResolves ==
  (GRReturned /\ Unchanged) =>
    \A d \in UpFrom(StartDir) :
      (/\ fs[d].kind = "dir"
       /\ \A x \in UpFrom(StartDir) :
            (x # d /\ IsUnderOrEqual(x, d)) => fs[x].kind = "none")
      => repository = d

\* C3: when the nearest .git entry is a redirect file whose target is not
\* an existing directory, the result is the root of the next usable marker
\* further up, or NotFound without one.
C3_UnusableRedirectFallsBack ==
  (GRReturned /\ Unchanged) =>
    LET marked == {d \in UpFrom(StartDir) : fs[d].kind # "none"} IN
    (marked # {} /\ fs[Nearest(marked)].kind = "file"
                 /\ ~TargetIsDir(Nearest(marked)))
    => LET n     == Nearest(marked)
           above == {d \in UpFrom(n) \ {n} : Usable(d)}
       IN repository = (IF above = {} THEN Undefined
                        ELSE RootOf(Nearest(above)))


\* The command is inside getRepository.
InGetRepository ==
  pc \in {"gr_loop", "gr_stat", "gr_read", "gr_target", "gr_up", "gr_warn"}

\* C4: every walk of getRepository ends; each iteration that goes on moves
\* currentDir to its parent, a strictly shorter path; a walk started at the
\* filesystem root ends with NotFound when the root holds no marker.
C4_WalkTerminates ==
  /\ InGetRepository ~> ~InGetRepository
  /\ [][(pc = "gr_up" /\ pc' = "gr_loop")
          => (currentDir' = Dirname(currentDir)
              /\ Len(currentDir') < Len(currentDir))]_vars
  /\ []((GRReturned /\ StartDir = "/" /\ fs["/"].kind = "none")
          => repository = Undefined)

\* A walk that climbed over at least two directories and ended with NotFound.
C4_Witness == GRReturned /\ repository = Undefined /\ Len(probes) >= 2

\* The relative path of file against root r when file is r joined with it.
Suffix(file, r) ==
  IF r = "/" THEN Substring(file, 1) ELSE Substring(file, Len(r) + 1)

\* The file being located and the root relativePath was computed against.
LocatedFile == IF cmd.name = "openFile" THEN cmd.file ELSE cmd.editor
RelativizedAgainst ==
  IF pc \in {"gfd_loop", "gfd_stat", "gfd_up", "gfd_fin",
             "of_loop", "of_stat", "of_up", "of_fin"} \/ Falsy(submoduleRoot)
  THEN repository
  ELSE submoduleRoot

\* C5: the relative path computed for a file against a root r that the file
\* lies under is the rest of the file's path after r, without a leading
\* separator, also for r the filesystem root.
C5_RelativizeLeftInverse ==
  (/\ relativePath # Undefined
   /\ ~Falsy(RelativizedAgainst)
   /\ IsUnderOrEqual(LocatedFile, RelativizedAgainst))
  => /\ relativePath = Suffix(LocatedFile, RelativizedAgainst)
     /\ ~IsAbsolute(relativePath)

\* C6: no failure of a filesystem probe leaves a command as an exception.
C6_NothingThrown == ~thrown

\* No .git entry in any directory from the start of the walk up to the root.
NoMarkerAbove == \A d \in UpFrom(StartDir) : fs[d].kind = "none"

\* C7: a command that resolves on a path without any .git entry up to the
\* root ends with NotFound and has emitted exactly one warning.
C7_OneWarningWhenNotFound ==
  (grRet # Undefined /\ Unchanged /\ NoMarkerAbove)
  => /\ warnings <= 1
     /\ pc = "done" => /\ warnings = 1
                       /\ repository = Undefined
                       /\ details = NoDetails

\* viewLineHistory ended on a path without markers, one warning shown.
C7_Witness ==
  /\ pc = "done" /\ cmd.name = "viewLineHistory" /\ grRet # Undefined
  /\ Unchanged /\ NoMarkerAbove /\ warnings = 1

\* The number of times directory d was probed.
ProbeCount(d) == Cardinality({i \in 1..Len(probes) : probes[i] = d})

\* C8: a walk that gives up has probed the filesystem root exactly once,
\* and no walk probes a directory twice.
C8_RootProbedOnce ==
  /\ \A d \in Dirs : ProbeCount(d) <= 1
  /\ (GRReturned /\ repository = Undefined) => ProbeCount("/") = 1

\* The working directory getFileDetails or openFile has reported, if any.
Reported ==
  IF details # NoDetails THEN {details.repository}
  ELSE IF cmd.name = "openFile" /\ launches # <<>> THEN {launches[1].cwd}
  ELSE {}

\* C9: the working directory getFileDetails and openFile report is the root
\* getRepository returned for the file: a nearest .git entry that is a
\* directory decides it, and a directory whose .git file has a dangling
\* redirect is never reported.
C9_WorkingDirIsRepository ==
  Unchanged =>
    \A w \in Reported :
      /\ w = repository
      /\ LET marked == {d \in UpFrom(Dirname(LocatedFile)) : fs[d].kind # "none"}
         IN (marked # {} /\ fs[Nearest(marked)].kind = "dir")
              => w = Nearest(marked)
      /\ w \in Dirs => ~(fs[w].kind = "file" /\ ~TargetIsDir(w))

\* The working directory the running command has resolved.
ResolvedWorkingDir ==
  CASE cmd.name = "openFile" ->
         IF ~Falsy(submoduleRoot) THEN submoduleRoot ELSE repository
    [] cmd.name = "openRepository" /\ cmd.folder # Undefined -> repository
    [] OTHER -> details.repository

\* C10: the launcher runs at most once per command, only after getRepository
\* returned a root, with the resolved working directory as cwd, and never
\* when nothing was resolved or an exception ended the command.
C10_LaunchOnlyWithRoot ==
  /\ Len(launches) <= 1
  /\ launches # <<>> =>
       /\ pc = "done"
       /\ ~Falsy(repository)
       /\ ~thrown
       /\ launches[1].cwd = ResolvedWorkingDir
       /\ ~Falsy(launches[1].cwd)

\* openFile launched in the root of a submodule.
C10_Witness ==
  /\ pc = "done" /\ cmd.name = "openFile" /\ Len(launches) = 1
  /\ launches[1].cwd = submoduleRoot

=============================================================================
